---- MODULE Spec2Model ----
(***************************************************************************)
(* Leave-management core of src/main.py: employees, leave requests, the    *)
(* overlap checker, the balance calculator and the apply / decide          *)
(* lifecycle, over a record store holding two tables.                      *)
(*                                                                         *)
(* Dates are day numbers counted from a Monday: date d has weekday d % 7   *)
(* (0 = Monday .. 6 = Sunday, as date.weekday()), and calendar year        *)
(* d \div YearLen.  Row ids are positions in the table (rows are never     *)
(* deleted).  Columns that no rule reads (name, department, reason,        *)
(* created_at, updated_at) are left out.                                   *)
(***************************************************************************)
EXTENDS Integers, Sequences, FiniteSets, TLC

\* ------------------------------------------------------------ bounds
YearLen == 35
NumYears == 2
MaxEmployees == 2
MaxLeaves == 2
NumProcs == 2
MaxDate == 15

\* ------------------------------------------------------------ constants
DEFAULT_ANNUAL_BALANCE == 20

\* ------------------------------------------------------------ inputs
Years == 0 .. (NumYears - 1)
\* Request dates.  With YearLen = 35: 0 is the first Monday of year 0, 6 the
\* Sunday closing its first week, 7 the Monday after, 34 its last day (a
\* Sunday), 35 the first day (a Monday) of year 1.  [0,6] has 5 working
\* days, [7,34] has 20, [0,34] has 25.
StartDates == {0, 6, 7, 35}
EndDates == {6, 34, 35}
JoinDates == {0, 35}
Emails == {"a@x.org", "A@x.org", "b@x.org"}
\* days_override: << >> is None, <<n>> is the integer n.
Overrides == {<< >>, <<0>>, <<11>>}
Procs == 1 .. NumProcs
\* Request dates of the concurrent requests.
ConcStartDates == {0, 7}
ConcEndDates == {6, 34}
ConcJoinDates == {0}
\* E-mail addresses of the employee whose decisions run concurrently.
ConcEmails == {"a@x.org", "A@x.org"}

\* ------------------------------------------------------------ calendar
weekday(d) == d % 7
year_of(d) == d \div YearLen
year_start(y) == y * YearLen
year_end(y) == y * YearLen + YearLen - 1

Max(a, b) == IF a >= b THEN a ELSE b
Min(a, b) == IF a <= b THEN a ELSE b

\* str.lower() on the e-mail addresses the model draws from.
Lower(email) == IF email = "A@x.org" THEN "a@x.org" ELSE email

\* working_days raises ValueError when end < start; the model returns this
\* value, which no count can take.
ValueError == 0 - 1

\* Fault variant: the loop stops before the end date.
RECURSIVE CountWorkingDaysExclusive(_, _, _)
CountWorkingDaysExclusive(cur, end, day_count) ==
    IF cur < end
    THEN CountWorkingDaysExclusive(cur + 1, end,
                          IF weekday(cur) < 5 THEN day_count + 1 ELSE day_count)
    ELSE day_count

RECURSIVE CountWorkingDays(_, _, _)
CountWorkingDays(cur, end, day_count) ==
    IF cur <= end
    THEN CountWorkingDays(cur + 1, end,
                          IF weekday(cur) < 5 THEN day_count + 1 ELSE day_count)
    ELSE day_count

working_days(start, end) ==
    IF end < start THEN ValueError ELSE CountWorkingDays(start, end, 0)

\* ------------------------------------------------------------ state
VARIABLES employees, leaves, response, procs
vars == <<employees, leaves, response, procs>>

NoResponse == [op |-> "none", error |-> "none", out |-> [kind |-> "none"]]
Idle == [pc |-> "idle"]

Init ==
    /\ employees = << >>
    /\ leaves = << >>
    /\ response = NoResponse
    /\ procs = [p \in Procs |-> Idle]

\* ------------------------------------------------------------ queries
\* A raised HTTPException, and a returned body.
Failure(op, kind) == [op |-> op, error |-> kind, out |-> [kind |-> "none"]]
Ok(op, body) == [op |-> op, error |-> "none", out |-> body]

\* sess.query(Employee).filter_by(id=...).first(): 0 stands for None.
find_employee(emps, employee_id) ==
    IF employee_id \in 1 .. Len(emps) THEN employee_id ELSE 0

find_leave(lvs, leave_id) ==
    IF leave_id \in 1 .. Len(lvs) THEN leave_id ELSE 0

\* Fault variant: the status filter lets every leave through.
Active_any_status(lv) == lv.status \in {"pending", "approved", "rejected"}

Active(lv) == lv.status \in {"pending", "approved"}

Intersects(lv, start, end) == lv.start_date <= end /\ lv.end_date >= start

\* Fault variant: the overlap query filters on approved leaves only.
has_overlap_approved_only(lvs, emp_id, start, end) ==
    \E i \in 1 .. Len(lvs) :
        /\ lvs[i].employee_id = emp_id
        /\ lvs[i].status = "approved"
        /\ Intersects(lvs[i], start, end)

has_overlap(lvs, emp_id, start, end) ==
    \E i \in 1 .. Len(lvs) :
        /\ lvs[i].employee_id = emp_id
        /\ Active(lvs[i])
        /\ Intersects(lvs[i], start, end)

\* Fault variant: pending leaves count as used too.
counts_as_used_when_active(lv) == Active(lv)

\* The status filter of compute_used_days.
counts_as_used(lv) == lv.status = "approved"

\* The row filter of compute_used_days.
InYear(lv, year) ==
    \/ lv.start_date >= year_start(year) /\ lv.start_date <= year_end(year)
    \/ lv.end_date >= year_start(year) /\ lv.end_date <= year_end(year)
    \/ lv.start_date <= year_start(year) /\ lv.end_date >= year_end(year)

RECURSIVE SumUsed(_, _, _, _)
SumUsed(lvs, emp_id, year, i) ==
    IF i > Len(lvs) THEN 0
    ELSE (IF /\ lvs[i].employee_id = emp_id
             /\ counts_as_used(lvs[i])
             /\ InYear(lvs[i], year)
          THEN working_days(Max(lvs[i].start_date, year_start(year)),
                            Min(lvs[i].end_date, year_end(year)))
          ELSE 0)
         + SumUsed(lvs, emp_id, year, i + 1)

compute_used_days(lvs, emp_id, year) == SumUsed(lvs, emp_id, year, 1)

\* ------------------------------------------------------------ handlers
\* Error kinds, by the raise that produces them:
\*   NotFound (404), Conflict (409: duplicate e-mail, overlapping leave),
\*   InvalidState (409: "Leave already ..."), InvalidRange (400: end before
\*   start, no working days), PolicyViolation (400: before joining date,
\*   multi-year span), InsufficientBalance (400: exceeds available balance),
\*   InvalidArgument (400: days_override must be positive).

\* Fault variant: the e-mail is stored as given, not lowercased.
add_employee_stores_raw(emps, email, joining_date) ==
    IF \E i \in 1 .. Len(emps) : emps[i].email = Lower(email)
    THEN [response |-> Failure("add_employee", "Conflict"), employees |-> emps]
    ELSE [response |-> Ok("add_employee", [kind |-> "employee", id |-> Len(emps) + 1]),
          employees |-> Append(emps, [email |-> email,
                                      joining_date |-> joining_date,
                                      annual_balance |-> DEFAULT_ANNUAL_BALANCE])]

add_employee(emps, email, joining_date) ==
    IF \E i \in 1 .. Len(emps) : emps[i].email = Lower(email)
    THEN [response |-> Failure("add_employee", "Conflict"), employees |-> emps]
    ELSE [response |-> Ok("add_employee", [kind |-> "employee", id |-> Len(emps) + 1]),
          employees |-> Append(emps, [email |-> Lower(email),
                                      joining_date |-> joining_date,
                                      annual_balance |-> DEFAULT_ANNUAL_BALANCE])]

\* Fault variant: the available days are not floored at zero.
get_balance_unfloored(emps, lvs, employee_id, year) ==
    IF find_employee(emps, employee_id) = 0
    THEN Failure("get_balance", "NotFound")
    ELSE LET emp == emps[employee_id]
             used == compute_used_days(lvs, employee_id, year)
             allocation == IF year_of(emp.joining_date) <= year
                           THEN emp.annual_balance ELSE 0
         IN Ok("get_balance", [kind |-> "balance",
                employee_id |-> employee_id,
                available_days |-> allocation - used,
                used_days |-> used,
                annual_allocation |-> allocation,
                year |-> year])

\* Fault variant: the allocation starts the year after the joining year.
get_balance_after_joining_year(emps, lvs, employee_id, year) ==
    IF find_employee(emps, employee_id) = 0
    THEN Failure("get_balance", "NotFound")
    ELSE LET emp == emps[employee_id]
             used == compute_used_days(lvs, employee_id, year)
             allocation == IF year_of(emp.joining_date) < year
                           THEN emp.annual_balance ELSE 0
             available == Max(allocation - used, 0)
         IN Ok("get_balance", [kind |-> "balance",
                employee_id |-> employee_id,
                available_days |-> available,
                used_days |-> used,
                annual_allocation |-> allocation,
                year |-> year])

get_balance(emps, lvs, employee_id, year) ==
    IF find_employee(emps, employee_id) = 0
    THEN Failure("get_balance", "NotFound")
    ELSE LET emp == emps[employee_id]
             used == compute_used_days(lvs, employee_id, year)
             allocation == IF year_of(emp.joining_date) <= year
                           THEN emp.annual_balance ELSE 0
             available == Max(allocation - used, 0)
         IN Ok("get_balance", [kind |-> "balance",
                employee_id |-> employee_id,
                available_days |-> available,
                used_days |-> used,
                annual_allocation |-> allocation,
                year |-> year])

\* Fault variant: no check of the start date against the joining date.
apply_leave_checks_no_joining(emps, lvs, employee_id, start, end) ==
    IF find_employee(emps, employee_id) = 0 THEN "NotFound"
    ELSE IF end < start THEN "InvalidRange"
    ELSE IF has_overlap(lvs, employee_id, start, end) THEN "Conflict"
    ELSE "none"

\* apply_leave up to and including the overlap query: the error it raises,
\* or "none".
apply_leave_checks(emps, lvs, employee_id, start, end) ==
    IF find_employee(emps, employee_id) = 0 THEN "NotFound"
    ELSE IF end < start THEN "InvalidRange"
    ELSE IF start < emps[employee_id].joining_date THEN "PolicyViolation"
    ELSE IF has_overlap(lvs, employee_id, start, end) THEN "Conflict"
    ELSE "none"

\* Fault variant: the row is inserted and committed before the balance check.
apply_leave_insert_before_check(emps, lvs, employee_id, start, end) ==
    LET days == working_days(start, end)
        used == compute_used_days(lvs, employee_id, year_of(start))
        available == Max(emps[employee_id].annual_balance - used, 0)
        inserted == Append(lvs, [employee_id |-> employee_id,
                                 start_date |-> start,
                                 end_date |-> end,
                                 days |-> days,
                                 status |-> "pending"])
    IN IF days <= 0
       THEN [response |-> Failure("apply_leave", "InvalidRange"), leaves |-> lvs]
       ELSE IF year_of(start) # year_of(end)
       THEN [response |-> Failure("apply_leave", "PolicyViolation"), leaves |-> lvs]
       ELSE IF days > available
       THEN [response |-> Failure("apply_leave", "InsufficientBalance"),
             leaves |-> inserted]
       ELSE [response |-> Ok("apply_leave", [kind |-> "leave", id |-> Len(lvs) + 1]),
             leaves |-> inserted]

\* apply_leave after the overlap query: day count, year rule, balance
\* check, insert and commit.
apply_leave_insert(emps, lvs, employee_id, start, end) ==
    LET days == working_days(start, end)
        used == compute_used_days(lvs, employee_id, year_of(start))
        available == Max(emps[employee_id].annual_balance - used, 0)
    IN IF days <= 0
       THEN [response |-> Failure("apply_leave", "InvalidRange"), leaves |-> lvs]
       ELSE IF year_of(start) # year_of(end)
       THEN [response |-> Failure("apply_leave", "PolicyViolation"), leaves |-> lvs]
       ELSE IF days > available
       THEN [response |-> Failure("apply_leave", "InsufficientBalance"), leaves |-> lvs]
       ELSE [response |-> Ok("apply_leave", [kind |-> "leave", id |-> Len(lvs) + 1]),
             leaves |-> Append(lvs, [employee_id |-> employee_id,
                                     start_date |-> start,
                                     end_date |-> end,
                                     days |-> days,
                                     status |-> "pending"])]

\* Fault variant: the day count is checked before the overlap query.
apply_leave_days_first(emps, lvs, employee_id, start, end) ==
    IF find_employee(emps, employee_id) = 0
    THEN [response |-> Failure("apply_leave", "NotFound"), leaves |-> lvs]
    ELSE IF end < start
    THEN [response |-> Failure("apply_leave", "InvalidRange"), leaves |-> lvs]
    ELSE IF start < emps[employee_id].joining_date
    THEN [response |-> Failure("apply_leave", "PolicyViolation"), leaves |-> lvs]
    ELSE IF working_days(start, end) <= 0
    THEN [response |-> Failure("apply_leave", "InvalidRange"), leaves |-> lvs]
    ELSE IF has_overlap(lvs, employee_id, start, end)
    THEN [response |-> Failure("apply_leave", "Conflict"), leaves |-> lvs]
    ELSE apply_leave_insert(emps, lvs, employee_id, start, end)

apply_leave(emps, lvs, employee_id, start, end) ==
    LET failed == apply_leave_checks(emps, lvs, employee_id, start, end)
    IN IF failed # "none"
       THEN [response |-> Failure("apply_leave", failed), leaves |-> lvs]
       ELSE apply_leave_insert(emps, lvs, employee_id, start, end)

\* Fault variant: the query does not exclude the leave being decided.
other_overlap_including_itself(lvs, leave_id) ==
    \E i \in 1 .. Len(lvs) :
        /\ lvs[i].employee_id = lvs[leave_id].employee_id
        /\ Active(lvs[i])
        /\ Intersects(lvs[i], lvs[leave_id].start_date, lvs[leave_id].end_date)

\* The approval-time query for OTHER pending/approved leaves in the range.
other_overlap(lvs, leave_id) ==
    \E i \in 1 .. Len(lvs) :
        /\ lvs[i].employee_id = lvs[leave_id].employee_id
        /\ i # leave_id
        /\ Active(lvs[i])
        /\ Intersects(lvs[i], lvs[leave_id].start_date, lvs[leave_id].end_date)

effective_days(lv, days_override) ==
    IF days_override # << >> THEN days_override[1] ELSE lv.days

\* Fault variant: only a rejected leave counts as decided.
already_decided_if_rejected(lv) == lv.status = "rejected"

\* "if leave.status != LeaveStatus.pending".
already_decided(lv) == lv.status # "pending"

\* Fault variant: zero days pass the check.
invalid_days_if_negative(days) == days < 0

\* "if days <= 0" on the effective days of an approval.
invalid_days(days) == days <= 0

\* Fault variant: the effective days are checked before the overlap query.
decide_leave_days_first(emps, lvs, leave_id, approved, days_override) ==
    IF find_leave(lvs, leave_id) = 0
    THEN [response |-> Failure("decide_leave", "NotFound"), leaves |-> lvs]
    ELSE IF already_decided(lvs[leave_id])
    THEN [response |-> Failure("decide_leave", "InvalidState"), leaves |-> lvs]
    ELSE IF find_employee(emps, lvs[leave_id].employee_id) = 0
    THEN [response |-> Failure("decide_leave", "NotFound"), leaves |-> lvs]
    ELSE IF approved
    THEN LET leave == lvs[leave_id]
             emp == emps[leave.employee_id]
             days == effective_days(leave, days_override)
             used == compute_used_days(lvs, leave.employee_id,
                                       year_of(leave.start_date))
             available == Max(emp.annual_balance - used, 0)
         IN IF invalid_days(days)
            THEN [response |-> Failure("decide_leave", "InvalidArgument"), leaves |-> lvs]
            ELSE IF /\ has_overlap(lvs, leave.employee_id,
                                   leave.start_date, leave.end_date)
                    /\ other_overlap(lvs, leave_id)
            THEN [response |-> Failure("decide_leave", "Conflict"), leaves |-> lvs]
            ELSE IF days > available
            THEN [response |-> Failure("decide_leave", "InsufficientBalance"), leaves |-> lvs]
            ELSE [response |-> Ok("decide_leave", [kind |-> "leave", id |-> leave_id]),
                  leaves |-> [lvs EXCEPT ![leave_id].days = days,
                                         ![leave_id].status = "approved"]]
    ELSE [response |-> Ok("decide_leave", [kind |-> "leave", id |-> leave_id]),
          leaves |-> [lvs EXCEPT ![leave_id].status = "rejected"]]

decide_leave(emps, lvs, leave_id, approved, days_override) ==
    IF find_leave(lvs, leave_id) = 0
    THEN [response |-> Failure("decide_leave", "NotFound"), leaves |-> lvs]
    ELSE IF already_decided(lvs[leave_id])
    THEN [response |-> Failure("decide_leave", "InvalidState"), leaves |-> lvs]
    ELSE IF find_employee(emps, lvs[leave_id].employee_id) = 0
    THEN [response |-> Failure("decide_leave", "NotFound"), leaves |-> lvs]
    ELSE IF approved
    THEN LET leave == lvs[leave_id]
             emp == emps[leave.employee_id]
             days == effective_days(leave, days_override)
             used == compute_used_days(lvs, leave.employee_id,
                                       year_of(leave.start_date))
             available == Max(emp.annual_balance - used, 0)
         IN IF /\ has_overlap(lvs, leave.employee_id,
                              leave.start_date, leave.end_date)
               /\ other_overlap(lvs, leave_id)
            THEN [response |-> Failure("decide_leave", "Conflict"), leaves |-> lvs]
            ELSE IF invalid_days(days)
            THEN [response |-> Failure("decide_leave", "InvalidArgument"), leaves |-> lvs]
            ELSE IF days > available
            THEN [response |-> Failure("decide_leave", "InsufficientBalance"), leaves |-> lvs]
            ELSE [response |-> Ok("decide_leave", [kind |-> "leave", id |-> leave_id]),
                  leaves |-> [lvs EXCEPT ![leave_id].days = days,
                                         ![leave_id].status = "approved"]]
    ELSE [response |-> Ok("decide_leave", [kind |-> "leave", id |-> leave_id]),
          leaves |-> [lvs EXCEPT ![leave_id].status = "rejected"]]

\* ------------------------------------------------------------ operations
\* Each request handler runs from its first query to its commit in one step.
CreateEmployee(email, joining_date) ==
    \E r \in {add_employee(employees, email, joining_date)} :
       /\ Len(r.employees) <= MaxEmployees
       /\ employees' = r.employees
       /\ response' = r.response
       /\ UNCHANGED <<leaves, procs>>

GetBalance(employee_id, year) ==
    /\ response' = get_balance(employees, leaves, employee_id, year)
    /\ UNCHANGED <<employees, leaves, procs>>

ApplyLeave(employee_id, start, end) ==
    \E r \in {apply_leave(employees, leaves, employee_id, start, end)} :
       /\ Len(r.leaves) <= MaxLeaves
       /\ leaves' = r.leaves
       /\ response' = r.response
       /\ UNCHANGED <<employees, procs>>

DecideLeave(leave_id, approved, days_override) ==
    \E r \in {decide_leave(employees, leaves, leave_id, approved, days_override)} :
       /\ leaves' = r.leaves
       /\ response' = r.response
       /\ UNCHANGED <<employees, procs>>

\* Ids a request may name: every existing row and one that does not exist.
EmployeeIds == 1 .. (MaxEmployees + 1)
LeaveIds == 1 .. (MaxLeaves + 1)

Next ==
    \/ \E email \in Emails, jd \in JoinDates : CreateEmployee(email, jd)
    \/ \E e \in EmployeeIds, y \in Years : GetBalance(e, y)
    \/ \E e \in EmployeeIds, s \in StartDates, en \in EndDates :
          ApplyLeave(e, s, en)
    \/ \E l \in LeaveIds, a \in BOOLEAN, ov \in Overrides :
          DecideLeave(l, a, ov)

Spec == Init /\ [][Next]_vars

\* ------------------------------------------------------------ concurrency
\* Request handlers run on a thread pool, each with a session of its own and
\* no lock: between the queries of one request and its commit, another
\* request may query and commit.  A request in flight is procs[p].
InFlight == {p \in Procs : procs[p].pc # "idle"}

\* apply_leave from the employee query to the overlap query.
ApplyRead(p, employee_id, start, end) ==
    LET failed == apply_leave_checks(employees, leaves, employee_id, start, end)
    IN /\ procs[p].pc = "idle"
       /\ Len(leaves) + Cardinality(InFlight) < MaxLeaves
       /\ IF failed # "none"
          THEN /\ response' = Failure("apply_leave", failed)
               /\ UNCHANGED procs
          ELSE /\ procs' = [procs EXCEPT ![p] = [pc |-> "apply_checked",
                                                  employee_id |-> employee_id,
                                                  start_date |-> start,
                                                  end_date |-> end]]
               /\ UNCHANGED response
       /\ UNCHANGED <<employees, leaves>>

\* apply_leave from the day count to the commit.
ApplyInsert(p) ==
    /\ procs[p].pc = "apply_checked"
    /\ LET r == apply_leave_insert(employees, leaves, procs[p].employee_id,
                                   procs[p].start_date, procs[p].end_date)
       IN /\ leaves' = r.leaves
          /\ response' = r.response
    /\ procs' = [procs EXCEPT ![p] = Idle]
    /\ UNCHANGED employees

\* The UPDATE that the commit of decide_leave flushes: the attributes of the
\* loaded row that the handler changed (days only when it differs from the
\* loaded value, status always), written to the row as it is now.
decide_leave_write(lvs, leave_id, approved, days, loaded_days) ==
    IF approved
    THEN [lvs EXCEPT ![leave_id].days = IF days # loaded_days THEN days ELSE @,
                     ![leave_id].status = "approved"]
    ELSE [lvs EXCEPT ![leave_id].status = "rejected"]

\* decide_leave from the leave query to the balance check.
DecideRead(p, leave_id, approved, days_override) ==
    /\ procs[p].pc = "idle"
    /\ \E r \in {decide_leave(employees, leaves, leave_id, approved, days_override)} :
          IF r.response.error # "none"
          THEN /\ response' = r.response
               /\ UNCHANGED procs
          ELSE /\ procs' = [procs EXCEPT ![p] =
                              [pc |-> "decide_checked",
                               leave_id |-> leave_id,
                               approved |-> approved,
                               days |-> effective_days(leaves[leave_id], days_override),
                               loaded_days |-> leaves[leave_id].days]]
               /\ UNCHANGED response
    /\ UNCHANGED <<employees, leaves>>

\* decide_leave from the assignment of days and status to the commit.
DecideWrite(p) ==
    /\ procs[p].pc = "decide_checked"
    /\ leaves' = decide_leave_write(leaves, procs[p].leave_id, procs[p].approved,
                                    procs[p].days, procs[p].loaded_days)
    /\ response' = Ok("decide_leave", [kind |-> "leave", id |-> procs[p].leave_id])
    /\ procs' = [procs EXCEPT ![p] = Idle]
    /\ UNCHANGED employees

NextConc ==
    \/ \E email \in Emails, jd \in ConcJoinDates : CreateEmployee(email, jd)
    \/ \E p \in Procs, e \in EmployeeIds, s \in ConcStartDates, en \in ConcEndDates :
          ApplyRead(p, e, s, en)
    \/ \E p \in Procs : ApplyInsert(p)
    \/ \E l \in LeaveIds, a \in BOOLEAN, ov \in Overrides :
          DecideLeave(l, a, ov)

SpecConc == Init /\ [][NextConc]_vars

\* Concurrent decisions on leaves applied for one request at a time.
NextConcDecide ==
    \/ \E email \in ConcEmails, jd \in ConcJoinDates : CreateEmployee(email, jd)
    \/ \E e \in EmployeeIds, s \in ConcStartDates, en \in ConcEndDates :
          ApplyLeave(e, s, en)
    \/ \E p \in Procs, l \in LeaveIds, a \in BOOLEAN, ov \in Overrides :
          DecideRead(p, l, a, ov)
    \/ \E p \in Procs : DecideWrite(p)

SpecConcDecide == Init /\ [][NextConcDecide]_vars

\* ------------------------------------------------------------ calendar utility
\* working_days called on its own, on every pair of dates up to MaxDate: the
\* count it returns, or the ValueError it raises.
CalendarDates == 0 .. MaxDate

WorkingDays(start, end) ==
    /\ \E n \in {working_days(start, end)} :
          response' = [op |-> "working_days",
                       error |-> IF n = ValueError THEN "ValueError" ELSE "none",
                       out |-> IF n = ValueError
                               THEN [kind |-> "raised", start |-> start, end |-> end]
                               ELSE [kind |-> "count", start |-> start, end |-> end,
                                     value |-> n]]
    /\ UNCHANGED <<employees, leaves, procs>>

NextCalendar == \E s \in CalendarDates, e \in CalendarDates : WorkingDays(s, e)

SpecCalendar == Init /\ [][NextCalendar]_vars

\* ------------------------------------------------------------ properties
EmployeeRows == 1 .. Len(employees)
LeaveRows == 1 .. Len(leaves)

\* Two date ranges intersect.
RangesIntersect(a, b) == a.start_date <= b.end_date /\ a.end_date >= b.start_date

PendingOrApproved(lv) == lv.status = "pending" \/ lv.status = "approved"

\* Two distinct pending/approved leaves of one employee with intersecting ranges.
OverlappingPair(i, j) ==
    /\ i # j
    /\ leaves[i].employee_id = leaves[j].employee_id
    /\ PendingOrApproved(leaves[i])
    /\ PendingOrApproved(leaves[j])
    /\ RangesIntersect(leaves[i], leaves[j])

\* The weekdays Monday to Friday in [s, e], counted as a set.
Weekdays(s, e) == Cardinality({d \in s .. e : d % 7 < 5})

\* The allocation of an employee in a year.
Allocation(e, y) ==
    IF year_of(employees[e].joining_date) <= y
    THEN employees[e].annual_balance ELSE 0

\* C1: with the operations executed one at a time, no employee ever has two
\* distinct pending/approved leaves whose date ranges intersect.
C1_NoOverlappingActiveLeaves ==
    \A i \in LeaveRows, j \in LeaveRows : ~OverlappingPair(i, j)

\* An application was refused for Conflict while its employee holds two
\* pending/approved leaves, one of them approved.
C1_Witness ==
    /\ response.op = "apply_leave"
    /\ response.error = "Conflict"
    /\ \E i \in LeaveRows, j \in LeaveRows :
          /\ i # j
          /\ leaves[i].employee_id = leaves[j].employee_id
          /\ leaves[i].status = "approved"
          /\ leaves[j].status = "pending"

\* C2: a leave's status only changes from pending to approved or rejected;
\* a decided leave is never changed again, and every DecideLeave on it
\* (approve or reject, with or without days_override) fails with
\* InvalidState and changes nothing.
C2_RefusedUnchanged(l, a, ov) ==
    decide_leave(employees, leaves, l, a, ov) =
        [response |-> Failure("decide_leave", "InvalidState"), leaves |-> leaves]

C2_DecidedIsTerminal ==
    /\ [][ \A i \in LeaveRows :
              /\ leaves'[i].status # leaves[i].status
                    => /\ leaves[i].status = "pending"
                       /\ leaves'[i].status \in {"approved", "rejected"}
              /\ leaves[i].status # "pending" => leaves'[i] = leaves[i]
         ]_vars
    /\ [](\A l \in LeaveRows, a \in BOOLEAN, ov \in Overrides :
              leaves[l].status # "pending" => C2_RefusedUnchanged(l, a, ov))

\* A decision on an approved leave was refused with InvalidState.
C2_Witness ==
    /\ response.op = "decide_leave"
    /\ response.error = "InvalidState"
    /\ \E i \in LeaveRows : leaves[i].status = "approved"
    /\ \A i \in LeaveRows : leaves[i].status # "rejected"

\* C3: for every employee and year, the used days (working days of the
\* approved leaves, clipped to the year) never exceed the allocation.
C3_UsedWithinAllocation ==
    \A e \in EmployeeRows, y \in Years :
        compute_used_days(leaves, e, y) <= Allocation(e, y)

\* C4: GetBalance returns available_days = max(allocation - used_days, 0),
\* never negative, with allocation = annual_balance when the joining year is
\* <= the queried year and 0 otherwise: of the response just returned, and of
\* the response to any query in the current state.
C4_BalanceOf(b) ==
    LET used == compute_used_days(leaves, b.employee_id, b.year)
        alloc == Allocation(b.employee_id, b.year)
    IN /\ b.used_days = used
       /\ b.annual_allocation = alloc
       /\ b.available_days >= 0
       /\ b.available_days = (IF alloc - used > 0 THEN alloc - used ELSE 0)

C4_AvailableIsFlooredDifference ==
    /\ response.out.kind = "balance" => C4_BalanceOf(response.out)
    /\ \A e \in EmployeeRows, y \in Years :
          C4_BalanceOf(get_balance(employees, leaves, e, y).out)

\* GetBalance answered for an employee whose used days exceed the allocation:
\* the floor at zero is what keeps the answer from being negative.
C4_Witness ==
    /\ response.out.kind = "balance"
    /\ response.out.used_days > response.out.annual_allocation
    /\ response.out.available_days = 0

\* C5: used_days counts only approved leaves.  A successful ApplyLeave and a
\* rejection change used_days and available_days of no employee and year; a
\* successful approval adds working_days(start_date, end_date) of the leave
\* to used_days of the leave's employee and year and changes no other.
C5_Available(lvs, e, y) == get_balance(employees, lvs, e, y).out.available_days

C5_BalancesUnchanged ==
    \A e \in EmployeeRows, y \in Years :
        /\ compute_used_days(leaves', e, y) = compute_used_days(leaves, e, y)
        /\ C5_Available(leaves', e, y) = C5_Available(leaves, e, y)

\* The step is a successful ApplyLeave or a rejection.
C5_AppliedOrRejected ==
    /\ response'.error = "none"
    /\ \/ response'.op = "apply_leave"
       \/ /\ response'.op = "decide_leave"
          /\ leaves'[response'.out.id].status = "rejected"

\* The step is a successful approval of leave l.
C5_Approved(l) ==
    /\ response'.error = "none"
    /\ response'.op = "decide_leave"
    /\ response'.out.id = l
    /\ leaves[l].status = "pending"
    /\ leaves'[l].status = "approved"

C5_UsedCountsOnlyApproved ==
    [][ /\ C5_AppliedOrRejected => C5_BalancesUnchanged
        /\ \A l \in LeaveRows :
              C5_Approved(l)
                 => \A e \in EmployeeRows, y \in Years :
                       compute_used_days(leaves', e, y) =
                          compute_used_days(leaves, e, y)
                          + (IF /\ e = leaves[l].employee_id
                                /\ y = year_of(leaves[l].start_date)
                             THEN working_days(leaves[l].start_date,
                                               leaves[l].end_date)
                             ELSE 0)
      ]_vars

\* A leave was just approved with an override, next to a pending leave of
\* another employee.
C5_Witness ==
    /\ response.op = "decide_leave"
    /\ response.error = "none"
    /\ \E i \in LeaveRows, j \in LeaveRows :
          /\ response.out.id = i
          /\ leaves[i].status = "approved"
          /\ leaves[i].days # working_days(leaves[i].start_date, leaves[i].end_date)
          /\ leaves[j].status = "pending"
          /\ leaves[j].employee_id # leaves[i].employee_id

\* C6: every stored leave has days > 0, at creation and after any decision.
C6_DaysPositive ==
    \A i \in LeaveRows : leaves[i].days > 0

\* An approval with days_override = 0 was refused while another leave stands
\* approved with overridden days.
C6_Witness ==
    /\ response.op = "decide_leave"
    /\ response.error = "InvalidArgument"
    /\ \E i \in LeaveRows :
          /\ leaves[i].status = "approved"
          /\ leaves[i].days # working_days(leaves[i].start_date, leaves[i].end_date)

\* C7: ApplyLeave fails with the first failing condition in the order
\* employee missing (NotFound), end before start (InvalidRange), start before
\* the joining date (PolicyViolation), range intersecting a pending/approved
\* leave of the employee (Conflict), no working day in the range
\* (InvalidRange), start and end in different years (PolicyViolation), days
\* above the available balance of the year (InsufficientBalance); so a
\* weekend-only range intersecting a pending/approved leave fails with
\* Conflict.  It succeeds only if none holds, and then creates exactly one
\* leave, pending, with days = the working days of the range.
C7_Expected(e, s, en) ==
    IF e \notin EmployeeRows THEN "NotFound"
    ELSE IF en < s THEN "InvalidRange"
    ELSE IF s < employees[e].joining_date THEN "PolicyViolation"
    ELSE IF \E i \in LeaveRows :
               /\ leaves[i].employee_id = e
               /\ PendingOrApproved(leaves[i])
               /\ leaves[i].start_date <= en
               /\ leaves[i].end_date >= s
         THEN "Conflict"
    ELSE IF Weekdays(s, en) = 0 THEN "InvalidRange"
    ELSE IF year_of(s) # year_of(en) THEN "PolicyViolation"
    ELSE IF Weekdays(s, en) >
               get_balance(employees, leaves, e, year_of(s)).out.available_days
         THEN "InsufficientBalance"
    ELSE "none"

C7_Created(e, s, en) ==
    [employee_id |-> e, start_date |-> s, end_date |-> en,
     days |-> Weekdays(s, en), status |-> "pending"]

C7_ApplyErrorOrder ==
    /\ \A e \in EmployeeIds, s \in StartDates, en \in EndDates :
          LET r == apply_leave(employees, leaves, e, s, en)
              x == C7_Expected(e, s, en)
          IN /\ r.response.error = x
             /\ x # "none" => r.leaves = leaves
             /\ x = "none" => r.leaves = Append(leaves, C7_Created(e, s, en))
    /\ (response.op = "apply_leave" /\ response.error = "none")
          => /\ response.out.id = Len(leaves)
             /\ leaves[Len(leaves)].status = "pending"
             /\ leaves[Len(leaves)].days =
                   Weekdays(leaves[Len(leaves)].start_date,
                            leaves[Len(leaves)].end_date)

\* An application was refused with Conflict in a state where a weekend-only
\* range of the inputs intersects a pending/approved leave.
C7_Witness ==
    /\ response.op = "apply_leave"
    /\ response.error = "Conflict"
    /\ \E e \in EmployeeRows, s \in StartDates, en \in EndDates :
          /\ s <= en
          /\ Weekdays(s, en) = 0
          /\ has_overlap(leaves, e, s, en)

\* C8: an approving DecideLeave on a pending leave checks, in this order:
\* another pending/approved leave of the employee intersects its range
\* (Conflict); the effective days (days_override if given, else leave.days)
\* are <= 0 (InvalidArgument); the effective days exceed the available
\* balance of the leave's year, computed from approved leaves only
\* (InsufficientBalance).  Otherwise the leave becomes approved with
\* days = effective days.
C8_Effective(l, ov) == IF ov = << >> THEN leaves[l].days ELSE ov[1]

C8_Available(l) ==
    LET bal == employees[leaves[l].employee_id].annual_balance
        used == compute_used_days(leaves, leaves[l].employee_id,
                                  year_of(leaves[l].start_date))
    IN IF bal - used > 0 THEN bal - used ELSE 0

C8_Expected(l, ov) ==
    IF \E j \in LeaveRows : OverlappingPair(l, j) THEN "Conflict"
    ELSE IF C8_Effective(l, ov) <= 0 THEN "InvalidArgument"
    ELSE IF C8_Effective(l, ov) > C8_Available(l) THEN "InsufficientBalance"
    ELSE "none"

C8_ApprovalOrder ==
    \A l \in LeaveRows, ov \in Overrides :
        leaves[l].status = "pending"
           => LET r == decide_leave(employees, leaves, l, TRUE, ov)
                  x == C8_Expected(l, ov)
              IN /\ r.response.error = x
                 /\ x = "none"
                       => r.leaves = [leaves EXCEPT
                                         ![l].status = "approved",
                                         ![l].days = C8_Effective(l, ov)]

\* An approval was refused with Conflict: two pending leaves of one employee
\* intersect, so an approval with days_override = 0 meets both the Conflict
\* and the InvalidArgument condition.
C8_Witness ==
    /\ response.op = "decide_leave"
    /\ response.error = "Conflict"
    /\ \E l \in LeaveRows :
          /\ leaves[l].status = "pending"
          /\ C8_Expected(l, <<0>>) = "Conflict"

\* C9: an ApplyLeave, DecideLeave or CreateEmployee that fails leaves the
\* record store as it was: no row is created and no field of a leave
\* changes; a leave whose approval fails stays pending with its days.
C9_FailureKeepsStore ==
    /\ [][ response'.error # "none"
              => (employees' = employees /\ leaves' = leaves) ]_vars
    /\ [](/\ \A em \in Emails, jd \in JoinDates :
                LET r == add_employee(employees, em, jd)
                IN r.response.error # "none" => r.employees = employees
          /\ \A e \in EmployeeIds, s \in StartDates, en \in EndDates :
                LET r == apply_leave(employees, leaves, e, s, en)
                IN r.response.error # "none" => r.leaves = leaves
          /\ \A l \in LeaveIds, a \in BOOLEAN, ov \in Overrides :
                LET r == decide_leave(employees, leaves, l, a, ov)
                IN r.response.error # "none" => r.leaves = leaves)

\* An approval was refused for InsufficientBalance and a leave is pending.
C9_Witness ==
    /\ response.op = "decide_leave"
    /\ response.error = "InsufficientBalance"
    /\ \E l \in LeaveRows : leaves[l].status = "pending"

\* C10: when two ApplyLeave requests of one employee interleave their
\* overlap query and their insert, no interleaving ends (no request left in
\* flight) with two pending/approved leaves of the employee whose date
\* ranges intersect.
C10_ConcurrentAppliesNoOverlap ==
    InFlight = {} => \A i \in LeaveRows, j \in LeaveRows : ~OverlappingPair(i, j)

\* C11: when two approving DecideLeave requests without days_override, for
\* two different pending leaves of one employee and year, interleave their
\* used-days query and their status write, used_days of the year stays <=
\* the employee's annual_balance: as long as no approved leave carries
\* overridden days, no employee's used days of a year exceed annual_balance.
C11_NoOverriddenDays ==
    \A i \in LeaveRows :
        leaves[i].status = "approved"
           => leaves[i].days = working_days(leaves[i].start_date, leaves[i].end_date)

C11_ConcurrentApprovalsWithinBalance ==
    C11_NoOverriddenDays
       => \A e \in EmployeeRows, y \in Years :
             compute_used_days(leaves, e, y) <= employees[e].annual_balance

\* C12: for all dates s <= e, working_days(s, e) is the number of dates d
\* with s <= d <= e whose weekday is Monday to Friday; for e < s it fails
\* with an error instead of returning a count.
C12_WorkingDaysCountsWeekdays ==
    response.op = "working_days"
       => IF response.out.start <= response.out.end
          THEN /\ response.error = "none"
               /\ response.out.kind = "count"
               /\ response.out.value = Weekdays(response.out.start, response.out.end)
          ELSE /\ response.error # "none"
               /\ response.out.kind # "count"

\* A count over a range of more than a week that starts on a Sunday.
C12_Witness ==
    /\ response.op = "working_days"
    /\ response.error = "none"
    /\ response.out.start % 7 = 6
    /\ response.out.end - response.out.start > 7
    /\ response.out.value > 5

\* C13: no two employees have the same lowercase-normalized e-mail: a
\* CreateEmployee whose e-mail equals an existing employee's up to letter
\* case fails with Conflict and creates nothing.
C13_Normalized(email) == IF email = "A@x.org" THEN "a@x.org" ELSE email

C13_UniqueEmails ==
    /\ \A i \in EmployeeRows, j \in EmployeeRows :
          i # j => C13_Normalized(employees[i].email)
                      # C13_Normalized(employees[j].email)
    /\ \A em \in Emails, jd \in JoinDates :
          (\E i \in EmployeeRows :
              C13_Normalized(employees[i].email) = C13_Normalized(em))
             => add_employee(employees, em, jd) =
                   [response |-> Failure("add_employee", "Conflict"),
                    employees |-> employees]

\* A CreateEmployee was refused with Conflict while two employees exist.
C13_Witness ==
    /\ response.op = "add_employee"
    /\ response.error = "Conflict"
    /\ Len(employees) = 2

\* C14: a rejecting DecideLeave on a pending leave always succeeds and
\* changes only that leave's status, to rejected; a rejected leave does not
\* block applications: an ApplyLeave for a range that intersects no
\* pending/approved leave of the employee does not fail with Conflict.
C14_RejectionFreesRange ==
    /\ \A l \in LeaveRows, ov \in Overrides :
          leaves[l].status = "pending"
             => decide_leave(employees, leaves, l, FALSE, ov) =
                   [response |-> Ok("decide_leave", [kind |-> "leave", id |-> l]),
                    leaves |-> [leaves EXCEPT ![l].status = "rejected"]]
    /\ \A e \in EmployeeIds, s \in StartDates, en \in EndDates :
          (~ \E i \in LeaveRows :
                /\ leaves[i].employee_id = e
                /\ PendingOrApproved(leaves[i])
                /\ leaves[i].start_date <= en
                /\ leaves[i].end_date >= s)
             => apply_leave(employees, leaves, e, s, en).response.error # "Conflict"

\* An application just succeeded for a range that intersects a rejected
\* leave of the same employee.
C14_Witness ==
    /\ response.op = "apply_leave"
    /\ response.error = "none"
    /\ \E i \in LeaveRows :
          /\ i # Len(leaves)
          /\ leaves[i].status = "rejected"
          /\ leaves[i].employee_id = leaves[Len(leaves)].employee_id
          /\ RangesIntersect(leaves[i], leaves[Len(leaves)])

\* C15: for every employee and year, the stored days of the employee's
\* approved leaves of the year sum to at most the employee's annual_balance.
RECURSIVE C15_StoredDays(_, _, _)
C15_StoredDays(e, y, i) ==
    IF i > Len(leaves) THEN 0
    ELSE (IF /\ leaves[i].employee_id = e
             /\ leaves[i].status = "approved"
             /\ year_of(leaves[i].start_date) = y
          THEN leaves[i].days ELSE 0)
         + C15_StoredDays(e, y, i + 1)

C15_StoredDaysWithinBalance ==
    \A e \in EmployeeRows, y \in Years :
        C15_StoredDays(e, y, 1) <= employees[e].annual_balance

\* C16: every stored leave has start_date <= end_date, both dates in the
\* same calendar year, and start_date >= its employee's joining_date; hence
\* the year clipping of compute_used_days never shortens a stored leave: a
\* leave selected for a year lies wholly inside that year.
C16_StoredLeavesWellFormed ==
    \A l \in LeaveRows :
        LET lv == leaves[l]
        IN /\ lv.start_date <= lv.end_date
           /\ year_of(lv.start_date) = year_of(lv.end_date)
           /\ find_employee(employees, lv.employee_id) # 0
           /\ lv.start_date >= employees[lv.employee_id].joining_date
           /\ \A y \in Years :
                 InYear(lv, y)
                    => /\ y = year_of(lv.start_date)
                       /\ Max(lv.start_date, year_start(y)) = lv.start_date
                       /\ Min(lv.end_date, year_end(y)) = lv.end_date

\* A leave is stored for an employee who joined in year 1: applications
\* of that employee for year 0 were possible inputs and none is stored.
C16_Witness ==
    \E l \in LeaveRows :
        /\ employees[leaves[l].employee_id].joining_date = year_start(1)
        /\ leaves[l].start_date = year_start(1)

\* C17: whenever ApplyLeave or an approving DecideLeave reaches its balance
\* check, the availability it compares against equals the available_days
\* GetBalance reports for that employee and the year of the start date: the
\* request fails with InsufficientBalance exactly when its days exceed it.
C17_Reported(e, start) ==
    get_balance(employees, leaves, e, year_of(start)).out.available_days

C17_BalanceCheckMatchesGetBalance ==
    /\ \A e \in EmployeeIds, s \in StartDates, en \in EndDates :
          LET err == apply_leave(employees, leaves, e, s, en).response.error
          IN err \in {"none", "InsufficientBalance"}
                => (err = "InsufficientBalance"
                       <=> working_days(s, en) > C17_Reported(e, s))
    /\ \A l \in LeaveRows, ov \in Overrides :
          LET err == decide_leave(employees, leaves, l, TRUE, ov).response.error
          IN err \in {"none", "InsufficientBalance"}
                => (err = "InsufficientBalance"
                       <=> effective_days(leaves[l], ov)
                              > C17_Reported(leaves[l].employee_id,
                                             leaves[l].start_date))

\* An approval was refused for InsufficientBalance while GetBalance reports
\* a positive availability below the leave's days.
C17_Witness ==
    /\ response.op = "decide_leave"
    /\ response.error = "InsufficientBalance"
    /\ \E l \in LeaveRows :
          /\ leaves[l].status = "pending"
          /\ C17_Reported(leaves[l].employee_id, leaves[l].start_date) > 0
          /\ leaves[l].days
                > C17_Reported(leaves[l].employee_id, leaves[l].start_date)

\* C18: with operations running one after another, an approving DecideLeave
\* on a pending leave never fails with Conflict.
C18_SequentialApprovalNeverConflicts ==
    /\ ~ (response.op = "decide_leave" /\ response.error = "Conflict")
    /\ \A l \in LeaveRows, ov \in Overrides :
          leaves[l].status = "pending"
             => decide_leave(employees, leaves, l, TRUE, ov).response.error
                   # "Conflict"

\* An approval just succeeded while the same employee has another pending
\* or approved leave.
C18_Witness ==
    /\ response.op = "decide_leave"
    /\ response.error = "none"
    /\ leaves[response.out.id].status = "approved"
    /\ \E i \in LeaveRows :
          /\ i # response.out.id
          /\ leaves[i].employee_id = leaves[response.out.id].employee_id
          /\ PendingOrApproved(leaves[i])

\* C19: for every employee and year, used_days never decreases and
\* available_days never increases; a pending leave whose approval without
\* override fails with InsufficientBalance keeps failing while it is
\* pending, and is only ever approved with fewer days than it requested.
\* (A step that changes neither table changes no balance.)
C19_Balance(emps, lvs, e, y) == get_balance(emps, lvs, e, y).out

C19_Blocked(emps, lvs, l) ==
    /\ lvs[l].status = "pending"
    /\ decide_leave(emps, lvs, l, TRUE, << >>).response.error
          = "InsufficientBalance"

C19_StoreUnchanged == employees' = employees /\ leaves' = leaves

C19_UsedNeverDecreases ==
    [][ \/ C19_StoreUnchanged
        \/ /\ \A e \in EmployeeRows, y \in Years :
                 /\ C19_Balance(employees', leaves', e, y).used_days
                       >= C19_Balance(employees, leaves, e, y).used_days
                 /\ C19_Balance(employees', leaves', e, y).available_days
                       <= C19_Balance(employees, leaves, e, y).available_days
           /\ \A l \in LeaveRows :
                 C19_Blocked(employees, leaves, l)
                    => /\ leaves'[l].status = "pending"
                             => C19_Blocked(employees', leaves', l)
                       /\ leaves'[l].status = "approved"
                             => leaves'[l].days < leaves[l].days ]_vars

\* A leave whose requested days exceed what the other approved leave of the
\* employee leaves available was just approved with fewer days.
C19_Witness ==
    /\ response.op = "decide_leave"
    /\ response.error = "none"
    /\ \E l \in LeaveRows, i \in LeaveRows :
          /\ l = response.out.id
          /\ i # l
          /\ leaves[l].status = "approved"
          /\ leaves[i].status = "approved"
          /\ leaves[i].employee_id = leaves[l].employee_id
          /\ leaves[l].days
                < working_days(leaves[l].start_date, leaves[l].end_date)
          /\ working_days(leaves[l].start_date, leaves[l].end_date)
                + working_days(leaves[i].start_date, leaves[i].end_date)
                > employees[leaves[l].employee_id].annual_balance

\* C20: ApplyLeave, DecideLeave and GetBalance never modify an employee (no
\* step changes an existing employee); GetBalance modifies no leave; and
\* GetBalance returns the same result for an employee and year before and
\* after every step that approves no leave.
C20_Approves ==
    \E l \in LeaveRows :
        leaves[l].status # "approved" /\ leaves'[l].status = "approved"

C20_ReadOnlyBalance ==
    [][ /\ \A e \in EmployeeRows :
              e <= Len(employees') /\ employees'[e] = employees[e]
        /\ response'.op \in {"apply_leave", "decide_leave", "get_balance"}
              => employees' = employees
        /\ response'.op = "get_balance" => leaves' = leaves
        /\ \/ C20_Approves
           \/ employees' = employees /\ leaves' = leaves
           \/ \A e \in EmployeeRows, y \in Years :
                 get_balance(employees', leaves', e, y)
                    = get_balance(employees, leaves, e, y) ]_vars

\* GetBalance just answered for an employee who has a pending, a rejected
\* or an approved leave, i.e. after applications and decisions.
C20_Witness ==
    /\ response.op = "get_balance"
    /\ response.error = "none"
    /\ response.out.used_days > 0
    /\ \E l \in LeaveRows :
          /\ leaves[l].employee_id = response.out.employee_id
          /\ leaves[l].status # "approved"

====
